---------------------------- MODULE Spec2Model ----------------------------
(***************************************************************************)
(* Model of the multi-agent system: the Coordinator's classification,      *)
(* routing and synthesis (agents/coordinator_agent.py), the Text and       *)
(* Vision roles (agents/text_agent.py, agents/vision_agent.py), the        *)
(* generation client (utils/gemini_client.py) and the session stores       *)
(* (utils/state_manager.py), driven by the handlers of app.py.             *)
(*                                                                         *)
(* Python strings are sequences of one-character strings, so that lower(), *)
(* strip(), the `in` substring test, slicing and len() are computed as     *)
(* Python computes them.  Python's None is the value None below.           *)
(***************************************************************************)
EXTENDS Integers, Sequences, FiniteSets, TLC

VARIABLES
    conversation_history,   \* st.session_state.conversation_history
    current_context,        \* st.session_state.current_context
    uploaded_images,        \* st.session_state.uploaded_images
    agent_states,           \* st.session_state.agent_states
    clock,                  \* source of datetime.now() timestamps
    turns,                  \* number of operations performed so far
    op,                     \* the operation performed last
    arg_text,               \* its text argument
    arg_image,              \* its image argument
    answers,                \* what the models answered during the last operation
    decision,               \* input_type computed by the last Coordinator.process
    trace,                  \* role and client calls made by the last operation, in order
    result,                 \* value the last operation returned
    arg_limit,              \* its limit argument
    raised,                 \* TRUE iff the last operation raised to its caller
    prev                    \* the session as it was before the last operation

vars ==
    << conversation_history, current_context, uploaded_images, agent_states, clock,
       turns, op, arg_text, arg_image, arg_limit, answers, decision, trace, result, raised, prev >>

-----------------------------------------------------------------------------
(* Bounds of the model *)

\* operations per behaviour
MaxTurns ==
    2

\* length of the long reply the vision model gives
LongReplyLen ==
    205

\* update_context calls per behaviour of SpecContext
MaxAppends ==
    3

\* largest limit passed to get_recent_history
\* direct role and image-store calls in one behaviour
MaxAttempts ==
    3

MaxLimit ==
    3

-----------------------------------------------------------------------------
(* Python values and string primitives *)

NL ==
    "\n"

\* None as a text value: a one-element sequence no Python string is equal to
None ==
    <<"<None>">>

\* None as an image value
NoImage ==
    "None"

\* F applied to the value of x, which is computed once
With(x, F(_)) ==
    CHOOSE out \in {F(v) : v \in {x}} : TRUE

Min(a, b) ==
    IF a <= b THEN a ELSE b

Max(a, b) ==
    IF a >= b THEN a ELSE b

UpperLetters ==
    <<"A", "B", "C", "D", "E", "F", "G", "H", "I", "J", "K", "L", "M",
      "N", "O", "P", "Q", "R", "S", "T", "U", "V", "W", "X", "Y", "Z">>

LowerLetters ==
    <<"a", "b", "c", "d", "e", "f", "g", "h", "i", "j", "k", "l", "m",
      "n", "o", "p", "q", "r", "s", "t", "u", "v", "w", "x", "y", "z">>

\* str.lower() on one character
LowerChar(c) ==
    IF \E i \in 1..26 : UpperLetters[i] = c
    THEN LowerLetters[CHOOSE i \in 1..26 : UpperLetters[i] = c]
    ELSE c

\* str.lower()
lower(s) ==
    [i \in 1..Len(s) |-> LowerChar(s[i])]

\* the characters str.strip() removes
Whitespace ==
    {" ", "\t", "\n", "\r"}

\* str.strip()
strip(s) ==
    IF \A i \in 1..Len(s) : s[i] \in Whitespace
    THEN << >>
    ELSE LET first == CHOOSE i \in 1..Len(s) :
                        /\ s[i] \notin Whitespace
                        /\ \A j \in 1..(i - 1) : s[j] \in Whitespace
             last  == CHOOSE i \in 1..Len(s) :
                        /\ s[i] \notin Whitespace
                        /\ \A j \in (i + 1)..Len(s) : s[j] \in Whitespace
         IN  SubSeq(s, first, last)

\* Python's `sub in s` on strings
Contains(s, sub) ==
    \/ sub = << >>
    \/ \E i \in 0..(Len(s) - Len(sub)) :
          /\ s[i + 1] = sub[1]
          /\ SubSeq(s, i + 1, i + Len(sub)) = sub

\* str.replace(a, b) for one-character a and b
replace(s, a, b) ==
    [i \in 1..Len(s) |-> IF s[i] = a THEN b ELSE s[i]]

\* Python's s[start:] for any integer start
SliceFrom(s, start) ==
    LET lo == IF start < 0 THEN Max(Len(s) + start, 0) ELSE Min(start, Len(s))
    IN  SubSeq(s, lo + 1, Len(s))

\* Python's s[:stop] for stop >= 0
SliceTo(s, stop) ==
    SubSeq(s, 1, Min(stop, Len(s)))

\* dict.update(): the fields of upd replace or extend those of d
DictUpdate(d, upd) ==
    [k \in (DOMAIN d) \cup (DOMAIN upd) |-> IF k \in DOMAIN upd THEN upd[k] ELSE d[k]]

\* dict.get(key, default)
DictGet(d, key, default) ==
    IF key \in DOMAIN d THEN d[key] ELSE default

-----------------------------------------------------------------------------
(* String literals of the source *)

TEXT_BASE_INSTRUCTION ==
    <<"Y", "o", "u", " ", "a", "r", "e", " ", "a", " ", "h", "e", "l", "p", "f", "u", "l", " ",
      "A", "I", " ", "a", "s", "s", "i", "s", "t", "a", "n", "t", " ", "s", "p", "e", "c", "i",
      "a", "l", "i", "z", "i", "n", "g", " ", "i", "n", " ", "t", "e", "x", "t", "-", "b", "a",
      "s", "e", "d", " ", "i", "n", "t", "e", "r", "a", "c", "t", "i", "o", "n", "s", ".", " ", NL,
      " ", " ", " ", " ", " ", " ", " ", " ", "P", "r", "o", "v", "i", "d", "e", " ", "c", "l",
      "e", "a", "r", ",", " ", "a", "c", "c", "u", "r", "a", "t", "e", ",", " ", "a", "n", "d",
      " ", "c", "o", "n", "t", "e", "x", "t", "u", "a", "l", "l", "y", " ", "r", "e", "l", "e",
      "v", "a", "n", "t", " ", "r", "e", "s", "p", "o", "n", "s", "e", "s", ".", " ", "I", "f",
      " ", "y", "o", "u", " ", "n", "e", "e", "d", " ", "m", "o", "r", "e", " ", "i", "n", "f",
      "o", "r", "m", "a", "t", "i", "o", "n", " ", "t", "o", " ", "g", "i", "v", "e", " ", "a",
      " ", "b", "e", "t", "t", "e", "r", " ", "a", "n", "s", "w", "e", "r", ",", " ", "a", "s",
      "k", " ", "c", "l", "a", "r", "i", "f", "y", "i", "n", "g", " ", "q", "u", "e", "s", "t",
      "i", "o", "n", "s", ".">>

VISION_BASE_INSTRUCTION ==
    <<"Y", "o", "u", " ", "a", "r", "e", " ", "a", " ", "s", "p", "e", "c", "i", "a", "l", "i",
      "z", "e", "d", " ", "v", "i", "s", "i", "o", "n", " ", "A", "I", " ", "a", "s", "s", "i",
      "s", "t", "a", "n", "t", ".", " ", "A", "n", "a", "l", "y", "z", "e", " ", "t", "h", "e",
      " ", "p", "r", "o", "v", "i", "d", "e", "d", " ", "i", "m", "a", "g", "e", " ", "c", "a",
      "r", "e", "f", "u", "l", "l", "y", " ", "a", "n", "d", " ", "r", "e", "s", "p", "o", "n",
      "d", " ", "t", "o", " ", "t", "h", "e", " ", "u", "s", "e", "r", "'", "s", " ", "q", "u",
      "e", "r", "y", " ", "w", "i", "t", "h", " ", "d", "e", "t", "a", "i", "l", "e", "d", ",",
      " ", "a", "c", "c", "u", "r", "a", "t", "e", " ", "o", "b", "s", "e", "r", "v", "a", "t",
      "i", "o", "n", "s", ".", " ", NL, " ", " ", " ", " ", " ", " ", " ", " ", "F", "o", "c", "u",
      "s", " ", "o", "n", " ", "v", "i", "s", "u", "a", "l", " ", "e", "l", "e", "m", "e", "n",
      "t", "s", ",", " ", "o", "b", "j", "e", "c", "t", "s", ",", " ", "p", "e", "o", "p", "l",
      "e", ",", " ", "t", "e", "x", "t", ",", " ", "c", "o", "l", "o", "r", "s", ",", " ", "c",
      "o", "m", "p", "o", "s", "i", "t", "i", "o", "n", ",", " ", "a", "n", "d", " ", "a", "n",
      "y", " ", "r", "e", "l", "e", "v", "a", "n", "t", " ", "d", "e", "t", "a", "i", "l", "s",
      " ", "t", "h", "a", "t", " ", "a", "d", "d", "r", "e", "s", "s", " ", "t", "h", "e", " ",
      "u", "s", "e", "r", "'", "s", " ", "q", "u", "e", "s", "t", "i", "o", "n", ".">>

S_ConversationContext ==
    <<NL, NL, "C", "o", "n", "v", "e", "r", "s", "a", "t", "i", "o", "n", " ", "C", "o", "n", "t",
      "e", "x", "t", ":", NL>>

S_UserQuery ==
    <<NL, NL, "U", "s", "e", "r", " ", "Q", "u", "e", "r", "y", ":", " ">>

S_UserQueryImage ==
    <<NL, NL, "U", "s", "e", "r", " ", "Q", "u", "e", "r", "y", " ", "a", "b", "o", "u", "t", " ",
      "t", "h", "e", " ", "i", "m", "a", "g", "e", ":", " ">>

S_DescribeDefault ==
    <<"P", "l", "e", "a", "s", "e", " ", "d", "e", "s", "c", "r", "i", "b", "e", " ", "t", "h",
      "i", "s", " ", "i", "m", "a", "g", "e", " ", "i", "n", " ", "d", "e", "t", "a", "i", "l",
      ".">>

S_ContextPrefix ==
    <<"C", "o", "n", "t", "e", "x", "t", ":", " ">>

S_QueryPrefix ==
    <<NL, NL, "Q", "u", "e", "r", "y", ":", " ">>

S_ErrGenText ==
    <<"E", "r", "r", "o", "r", " ", "g", "e", "n", "e", "r", "a", "t", "i", "n", "g", " ", "t",
      "e", "x", "t", " ", "r", "e", "s", "p", "o", "n", "s", "e", ":", " ">>

S_ErrGenVision ==
    <<"E", "r", "r", "o", "r", " ", "g", "e", "n", "e", "r", "a", "t", "i", "n", "g", " ", "v",
      "i", "s", "i", "o", "n", " ", "r", "e", "s", "p", "o", "n", "s", "e", ":", " ">>

S_UserAsked ==
    <<"U", "s", "e", "r", " ", "a", "s", "k", "e", "d", ":", " ">>

S_AgentResponded ==
    <<NL, "A", "g", "e", "n", "t", " ", "r", "e", "s", "p", "o", "n", "d", "e", "d", ":", " ">>

S_Ellipsis ==
    <<".", ".", ".">>

S_UserAskedImage ==
    <<"U", "s", "e", "r", " ", "a", "s", "k", "e", "d", " ", "a", "b", "o", "u", "t", " ", "i",
      "m", "a", "g", "e", ":", " ">>

S_VisionAnalysis ==
    <<NL, "V", "i", "s", "i", "o", "n", " ", "a", "n", "a", "l", "y", "s", "i", "s", ":", " ">>

S_ErrText ==
    <<"E", "r", "r", "o", "r", " ", "p", "r", "o", "c", "e", "s", "s", "i", "n", "g", " ", "t",
      "e", "x", "t", " ", "i", "n", "p", "u", "t", ":", " ">>

S_ErrImage ==
    <<"E", "r", "r", "o", "r", " ", "p", "r", "o", "c", "e", "s", "s", "i", "n", "g", " ", "i",
      "m", "a", "g", "e", ":", " ">>

S_NoImage ==
    <<"N", "o", " ", "i", "m", "a", "g", "e", " ", "p", "r", "o", "v", "i", "d", "e", "d", ".",
      " ", "P", "l", "e", "a", "s", "e", " ", "u", "p", "l", "o", "a", "d", " ", "a", "n", " ",
      "i", "m", "a", "g", "e", " ", "f", "o", "r", " ", "v", "i", "s", "u", "a", "l", " ", "a",
      "n", "a", "l", "y", "s", "i", "s", ".">>

S_UnableImage ==
    <<"U", "n", "a", "b", "l", "e", " ", "t", "o", " ", "p", "r", "o", "c", "e", "s", "s", " ",
      "i", "m", "a", "g", "e", ":", " ">>

S_CoordinatorError ==
    <<"C", "o", "o", "r", "d", "i", "n", "a", "t", "o", "r", " ", "e", "r", "r", "o", "r", ":",
      " ">>

S_BasedOn ==
    <<"B", "a", "s", "e", "d", " ", "o", "n", " ", "t", "h", "i", "s", " ", "i", "m", "a", "g",
      "e", " ", "a", "n", "a", "l", "y", "s", "i", "s", ":", " ">>

S_AdditionalQuestion ==
    <<NL, NL, "U", "s", "e", "r", "'", "s", " ", "a", "d", "d", "i", "t", "i", "o", "n", "a", "l",
      " ", "q", "u", "e", "s", "t", "i", "o", "n", ":", " ">>

S_Synth1 ==
    <<NL, " ", " ", " ", " ", " ", " ", " ", " ", "O", "r", "i", "g", "i", "n", "a", "l", " ", "u",
      "s", "e", "r", " ", "q", "u", "e", "r", "y", ":", " ">>

S_Synth2 ==
    <<NL, " ", " ", " ", " ", " ", " ", " ", " ", NL, " ", " ", " ", " ", " ", " ", " ", " ", "V",
      "i", "s", "i", "o", "n", " ", "A", "g", "e", "n", "t", " ", "A", "n", "a", "l", "y", "s",
      "i", "s", ":", " ">>

S_Synth3 ==
    <<NL, " ", " ", " ", " ", " ", " ", " ", " ", NL, " ", " ", " ", " ", " ", " ", " ", " ", "T",
      "e", "x", "t", " ", "A", "g", "e", "n", "t", " ", "R", "e", "s", "p", "o", "n", "s", "e",
      ":", " ">>

S_Synth4 ==
    <<NL, " ", " ", " ", " ", " ", " ", " ", " ", NL, " ", " ", " ", " ", " ", " ", " ", " ", "P",
      "l", "e", "a", "s", "e", " ", "p", "r", "o", "v", "i", "d", "e", " ", "a", " ", "c", "o",
      "h", "e", "r", "e", "n", "t", ",", " ", "c", "o", "m", "p", "r", "e", "h", "e", "n", "s",
      "i", "v", "e", " ", "r", "e", "s", "p", "o", "n", "s", "e", " ", "t", "h", "a", "t", " ",
      "c", "o", "m", "b", "i", "n", "e", "s", " ", "t", "h", "e", " ", "v", "i", "s", "u", "a",
      "l", " ", "a", "n", "a", "l", "y", "s", "i", "s", " ", "w", "i", "t", "h", " ", "t", "h",
      "e", " ", "t", "e", "x", "t", "u", "a", "l", " ", "r", "e", "a", "s", "o", "n", "i", "n",
      "g", " ", "t", "o", " ", "b", "e", "s", "t", " ", "a", "n", "s", "w", "e", "r", " ", "t",
      "h", "e", " ", "u", "s", "e", "r", "'", "s", " ", "q", "u", "e", "r", "y", ".", NL, " ", " ",
      " ", " ", " ", " ", " ", " ">>

S_Comprehensive ==
    <<"*", "*", "C", "o", "m", "p", "r", "e", "h", "e", "n", "s", "i", "v", "e", " ", "A", "n",
      "a", "l", "y", "s", "i", "s", ":", "*", "*", NL, NL>>

S_VisualAnalysis ==
    <<"*", "*", "V", "i", "s", "u", "a", "l", " ", "A", "n", "a", "l", "y", "s", "i", "s", ":",
      "*", "*", NL>>

S_AdditionalAnalysis ==
    <<NL, NL, "*", "*", "A", "d", "d", "i", "t", "i", "o", "n", "a", "l", " ", "A", "n", "a", "l",
      "y", "s", "i", "s", ":", "*", "*", NL>>

S_Unable ==
    <<"U", "n", "a", "b", "l", "e", " ", "t", "o", " ", "d", "e", "t", "e", "r", "m", "i", "n",
      "e", " ", "h", "o", "w", " ", "t", "o", " ", "p", "r", "o", "c", "e", "s", "s", " ", "t",
      "h", "i", "s", " ", "r", "e", "q", "u", "e", "s", "t", ".">>

\* the status strings of text_agent.py and vision_agent.py; the circle is one character
S_StatusActive ==
    <<"<green circle>", " ", "A", "c", "t", "i", "v", "e">>

S_StatusInactive ==
    <<"<red circle>", " ", "I", "n", "a", "c", "t", "i", "v", "e">>

\* the status strings of coordinator_agent.py, whose circles are stored as four
\* characters each
S_CoordStatusActive ==
    <<"<g breve>", "<Y diaeresis>", "<Y diaeresis>", "<cent>", " ",
      "A", "c", "t", "i", "v", "e">>

S_CoordStatusInactive ==
    <<"<g breve>", "<Y diaeresis>", "<right quote>", "<acute>", " ",
      "I", "n", "a", "c", "t", "i", "v", "e">>

S_Active ==
    <<"A", "c", "t", "i", "v", "e">>

NAME_Text ==
    <<"T", "e", "x", "t", " ", "A", "g", "e", "n", "t">>

NAME_Vision ==
    <<"V", "i", "s", "i", "o", "n", " ", "A", "g", "e", "n", "t">>

NAME_Coordinator ==
    <<"C", "o", "o", "r", "d", "i", "n", "a", "t", "o", "r", " ", "A", "g", "e", "n", "t">>

KEY_text_agent ==
    <<"t", "e", "x", "t", "_", "a", "g", "e", "n", "t">>

KEY_vision_agent ==
    <<"v", "i", "s", "i", "o", "n", "_", "a", "g", "e", "n", "t">>

KEY_coordinator ==
    <<"c", "o", "o", "r", "d", "i", "n", "a", "t", "o", "r">>

D_text_only ==
    <<"t", "e", "x", "t", "_", "o", "n", "l", "y">>

D_vision_primary ==
    <<"v", "i", "s", "i", "o", "n", "_", "p", "r", "i", "m", "a", "r", "y">>

D_vision_with_text ==
    <<"v", "i", "s", "i", "o", "n", "_", "w", "i", "t", "h", "_", "t", "e", "x", "t">>

D_error ==
    <<"e", "r", "r", "o", "r">>

S_NoneStr ==
    <<"N", "o", "n", "e">>

S_text ==
    <<"t", "e", "x", "t">>

S_vision ==
    <<"v", "i", "s", "i", "o", "n">>

T_Coordinator ==
    <<"C", "o", "o", "r", "d", "i", "n", "a", "t", "o", "r">>

E_NoLower ==
    <<"'", "N", "o", "n", "e", "T", "y", "p", "e", "'", " ", "o", "b", "j", "e", "c", "t", " ",
      "h", "a", "s", " ", "n", "o", " ", "a", "t", "t", "r", "i", "b", "u", "t", "e", " ", "'",
      "l", "o", "w", "e", "r", "'">>

E_NoStrip ==
    <<"'", "N", "o", "n", "e", "T", "y", "p", "e", "'", " ", "o", "b", "j", "e", "c", "t", " ",
      "h", "a", "s", " ", "n", "o", " ", "a", "t", "t", "r", "i", "b", "u", "t", "e", " ", "'",
      "s", "t", "r", "i", "p", "'">>

E_Quota ==
    <<"q", "u", "o", "t", "a", " ", "e", "x", "c", "e", "e", "d", "e", "d">>

E_CannotIdentify ==
    <<"c", "a", "n", "n", "o", "t", " ", "i", "d", "e", "n", "t", "i", "f", "y", " ", "i", "m",
      "a", "g", "e", " ", "f", "i", "l", "e">>

R_Short ==
    <<"P", "a", "r", "i", "s", ".">>

\* str(x) as an f-string formats a text value
Str(x) ==
    IF x = None THEN S_NoneStr ELSE x

image_keywords ==
    << <<"i", "m", "a", "g", "e">>,
       <<"p", "i", "c", "t", "u", "r", "e">>,
       <<"p", "h", "o", "t", "o">>,
       <<"s", "e", "e">>,
       <<"l", "o", "o", "k">>,
       <<"v", "i", "s", "u", "a", "l">>,
       <<"d", "e", "s", "c", "r", "i", "b", "e">>,
       <<"a", "n", "a", "l", "y", "z", "e">>,
       <<"i", "d", "e", "n", "t", "i", "f", "y">>,
       <<"w", "h", "a", "t", " ", "i", "s">>,
       <<"w", "h", "a", "t", " ", "a", "r", "e">> >>

-----------------------------------------------------------------------------
(* Program constants *)

\* the context keeps its last 1000 characters
ContextCap ==
    1000

\* a context summary quotes the first 200 characters of a response
SummaryLen ==
    200

-----------------------------------------------------------------------------
(* utils/state_manager.py.  A session s is the record of the four            *)
(* st.session_state entries and the clock; every method maps a session to    *)
(* the session it leaves behind.                                             *)

\* the state initialize_session_state creates
initialize_session_state ==
    [ conversation_history |-> << >>,
      current_context      |-> << >>,
      uploaded_images      |-> << >>,
      agent_states         |->
          (KEY_text_agent   :> [active |-> TRUE, last_response |-> << >>]) @@
          (KEY_vision_agent :> [active |-> TRUE, last_response |-> << >>]) @@
          (KEY_coordinator  :> [active |-> TRUE, last_decision |-> << >>]),
      clock                |-> 0 ]

\* add_to_history putting the record at the head: insert(0, ...) in place of append
add_to_history_AtHead(s, user_input, agent_response, agent_type, image_data) ==
    LET interaction == [ timestamp      |-> s.clock,
                         user_input     |-> user_input,
                         agent_response |-> agent_response,
                         agent_type     |-> agent_type,
                         has_image      |-> image_data # NoImage ]
    IN  [s EXCEPT !.conversation_history = <<interaction>> \o @,
                  !.clock = @ + 1]

add_to_history(s, user_input, agent_response, agent_type, image_data) ==
    LET interaction == [ timestamp      |-> s.clock,
                         user_input     |-> user_input,
                         agent_response |-> agent_response,
                         agent_type     |-> agent_type,
                         has_image      |-> image_data # NoImage ]
    IN  [s EXCEPT !.conversation_history = Append(@, interaction),
                  !.clock = @ + 1]

\* update_context cutting at the wrong end: s[:1000] in place of s[-1000:]
update_context_KeepsHead(s, new_context) ==
    LET joined == IF s.current_context # << >>
                  THEN s.current_context \o <<NL>> \o new_context
                  ELSE new_context
    IN  [s EXCEPT !.current_context =
            IF Len(joined) > ContextCap THEN SliceTo(joined, ContextCap) ELSE joined]

update_context(s, new_context) ==
    LET joined == IF s.current_context # << >>
                  THEN s.current_context \o <<NL>> \o new_context
                  ELSE new_context
    IN  [s EXCEPT !.current_context =
            IF Len(joined) > ContextCap THEN SliceFrom(joined, -ContextCap) ELSE joined]

get_context(s) ==
    s.current_context

get_recent_history(s, limit) ==
    IF s.conversation_history # << >>
    THEN SliceFrom(s.conversation_history, -limit)
    ELSE << >>

\* clear_history without its third assignment
clear_history_KeepsImages(s) ==
    [s EXCEPT !.conversation_history = << >>,
              !.current_context = << >>]

clear_history(s) ==
    [s EXCEPT !.conversation_history = << >>,
              !.current_context = << >>,
              !.uploaded_images = << >>]

update_agent_state(s, agent_name, state_data) ==
    IF agent_name \in DOMAIN s.agent_states
    THEN [s EXCEPT !.agent_states[agent_name] = DictUpdate(@, state_data)]
    ELSE s

get_agent_state(s, agent_name) ==
    IF agent_name \in DOMAIN s.agent_states THEN s.agent_states[agent_name] ELSE << >>

add_uploaded_image(s, image_data) ==
    [s EXCEPT !.uploaded_images = Append(@, [timestamp |-> s.clock, image |-> image_data]),
              !.clock = @ + 1]

\* get_latest_image reading the head of the list: [0] in place of [-1]
get_latest_image_Oldest(s) ==
    IF s.uploaded_images # << >>
    THEN s.uploaded_images[1].image
    ELSE NoImage

get_latest_image(s) ==
    IF s.uploaded_images # << >>
    THEN s.uploaded_images[Len(s.uploaded_images)].image
    ELSE NoImage

-----------------------------------------------------------------------------
(* agents/base_agent.py *)

\* self.name.lower().replace(' ', '_')
AgentKey(name) ==
    replace(lower(name), " ", "_")

update_state(s, name, state_data) ==
    update_agent_state(s, AgentKey(name), state_data)

get_state(s, name) ==
    get_agent_state(s, AgentKey(name))

-----------------------------------------------------------------------------
(* The environment: images and the generative models.                       *)
(* An image handle is a decoded PIL image or a file-like object; a model     *)
(* call either yields the text of a reply or raises an exception.            *)

PilImages ==
    {"img1", "img2"}

FileObjects ==
    {"file1", "file2", "badfile"}

\* PIL.Image.open: the decoded image, or the exception it raises
Image_open(f) ==
    CASE f = "file1" -> [exc |-> FALSE, ret |-> "img1"]
      [] f = "file2" -> [exc |-> FALSE, ret |-> "img2"]
      [] OTHER       -> [exc |-> TRUE,  ret |-> E_CannotIdentify]

\* a reply longer than SummaryLen
LongReply ==
    [i \in 1..LongReplyLen |-> LowerLetters[(i % 26) + 1]]

\* what text_model.generate_content can do
TextModelOutcomes ==
    { [ok |-> TRUE, text |-> R_Short], [ok |-> FALSE, text |-> E_Quota] }

\* what vision_model.generate_content can do
VisionModelOutcomes ==
    { [ok |-> TRUE, text |-> LongReply], [ok |-> FALSE, text |-> E_Quota] }

\* one entry of the trace
Call(name, text, image) ==
    [call |-> name, text |-> text, image |-> image]

-----------------------------------------------------------------------------
(* utils/gemini_client.py.  g is what generate_content does in this call.   *)

generate_text_response(prompt, context, g) ==
    LET full_prompt == IF context # << >>
                       THEN S_ContextPrefix \o context \o S_QueryPrefix \o prompt
                       ELSE prompt
    IN  [ exc   |-> FALSE,
          ret   |-> IF g.ok THEN g.text ELSE S_ErrGenText \o g.text,
          trace |-> << Call("text_model.generate_content", full_prompt, NoImage) >> ]

generate_vision_response(prompt, image, context, g) ==
    LET full_prompt == IF context # << >>
                       THEN S_ContextPrefix \o context \o S_QueryPrefix \o prompt
                       ELSE prompt
    IN  [ exc   |-> FALSE,
          ret   |-> IF g.ok THEN g.text ELSE S_ErrGenVision \o g.text,
          trace |-> << Call("vision_model.generate_content", full_prompt, image) >> ]

-----------------------------------------------------------------------------
(* agents/text_agent.py *)

enhance_prompt(user_input, context) ==
    IF context # << >>
    THEN TEXT_BASE_INSTRUCTION \o S_ConversationContext \o context
             \o S_UserQuery \o Str(user_input)
    ELSE TEXT_BASE_INSTRUCTION \o S_UserQuery \o Str(user_input)

TextAgent_process(s, user_input, image_data, g) ==
    LET invoked  == << Call("text_agent.process", user_input, image_data) >>
        context  == get_context(s)
        gen      == generate_text_response(enhance_prompt(user_input, context), context, g)
        response == gen.ret
        error_msg == S_ErrText \o gen.ret
    IN  IF gen.exc
        THEN [ ret   |-> error_msg,
               s     |-> update_state(s, NAME_Text,
                             [last_response |-> error_msg, active |-> FALSE]),
               trace |-> invoked \o gen.trace ]
        ELSE [ ret   |-> response,
               s     |-> update_context(
                             update_state(s, NAME_Text,
                                 [last_response |-> response, active |-> TRUE]),
                             S_UserAsked \o Str(user_input) \o S_AgentResponded
                                 \o SliceTo(response, SummaryLen) \o S_Ellipsis),
               trace |-> invoked \o gen.trace ]

TextAgent_get_status(s) ==
    IF DictGet(get_state(s, NAME_Text), "active", FALSE)
    THEN S_StatusActive
    ELSE S_StatusInactive

-----------------------------------------------------------------------------
(* agents/vision_agent.py *)

enhance_vision_prompt(user_input, context) ==
    IF user_input = None
    THEN [exc |-> TRUE, ret |-> E_NoStrip]
    ELSE LET query == IF strip(user_input) = << >> THEN S_DescribeDefault ELSE user_input
         IN  [ exc |-> FALSE,
               ret |-> IF context # << >>
                       THEN VISION_BASE_INSTRUCTION \o S_ConversationContext \o context
                                \o S_UserQueryImage \o query
                       ELSE VISION_BASE_INSTRUCTION \o S_UserQueryImage \o query ]

process_image(image_data) ==
    IF image_data \in PilImages
    THEN [exc |-> FALSE, ret |-> image_data]
    ELSE IF image_data \in FileObjects
    THEN LET opened == Image_open(image_data)
         IN  IF opened.exc
             THEN [exc |-> TRUE, ret |-> S_UnableImage \o opened.ret]
             ELSE opened
    ELSE [exc |-> FALSE, ret |-> image_data]

VisionAgent_process(s, user_input, image_arg, g) ==
    LET invoked    == << Call("vision_agent.process", user_input, image_arg) >>
        image_data == IF image_arg = NoImage THEN get_latest_image(s) ELSE image_arg
        context    == get_context(s)
        enhanced   == enhance_vision_prompt(user_input, context)
        processed  == process_image(image_data)
        gen        == generate_vision_response(enhanced.ret, processed.ret, context, g)
        response   == gen.ret
        failed(msg, tr) ==
            LET error_msg == S_ErrImage \o msg
            IN  [ ret   |-> error_msg,
                  s     |-> update_state(s, NAME_Vision,
                                [last_response |-> error_msg, active |-> FALSE]),
                  trace |-> tr ]
    IN  IF image_data = NoImage THEN [ret |-> S_NoImage, s |-> s, trace |-> invoked]
        ELSE IF enhanced.exc THEN failed(enhanced.ret, invoked)
        ELSE IF processed.exc THEN failed(processed.ret, invoked)
        ELSE IF gen.exc THEN failed(gen.ret, invoked \o gen.trace)
        ELSE [ ret   |-> response,
               s     |-> update_context(
                             update_state(s, NAME_Vision,
                                 [last_response |-> response, active |-> TRUE]),
                             S_UserAskedImage \o Str(user_input) \o S_VisionAnalysis
                                 \o SliceTo(response, SummaryLen) \o S_Ellipsis),
               trace |-> invoked \o gen.trace ]

VisionAgent_get_status(s) ==
    IF DictGet(get_state(s, NAME_Vision), "active", FALSE)
    THEN S_StatusActive
    ELSE S_StatusInactive

-----------------------------------------------------------------------------
(* agents/coordinator_agent.py.  log_action only writes to the page and is  *)
(* not part of the state.                                                    *)

\* _determine_input_type matching the keywords without lower()
determine_input_type_CaseSensitive(user_input, has_image) ==
    IF has_image
    THEN IF user_input = None
         THEN [exc |-> TRUE, ret |-> E_NoLower]
         ELSE IF \/ \E k \in 1..Len(image_keywords) :
                        Contains(user_input, image_keywords[k])
                 \/ strip(user_input) = << >>
              THEN [exc |-> FALSE, ret |-> D_vision_primary]
              ELSE [exc |-> FALSE, ret |-> D_vision_with_text]
    ELSE [exc |-> FALSE, ret |-> D_text_only]

determine_input_type(user_input, has_image) ==
    IF has_image
    THEN IF user_input = None
         THEN [exc |-> TRUE, ret |-> E_NoLower]
         ELSE IF \/ \E k \in 1..Len(image_keywords) :
                        Contains(lower(user_input), image_keywords[k])
                 \/ strip(user_input) = << >>
              THEN [exc |-> FALSE, ret |-> D_vision_primary]
              ELSE [exc |-> FALSE, ret |-> D_vision_with_text]
    ELSE [exc |-> FALSE, ret |-> D_text_only]

combine_responses(vision_response, text_response, original_query, g) ==
    LET synthesis_prompt == S_Synth1 \o Str(original_query) \o S_Synth2 \o vision_response
                                \o S_Synth3 \o text_response \o S_Synth4
        gen == generate_text_response(synthesis_prompt, << >>, g)
    IN  IF gen.exc
        THEN [ ret   |-> S_VisualAnalysis \o vision_response
                             \o S_AdditionalAnalysis \o text_response,
               trace |-> gen.trace ]
        ELSE [ ret   |-> S_Comprehensive \o gen.ret,
               trace |-> gen.trace ]

\* _route_request sending a text_only turn to the Vision role
route_request_TextOnlyToVision(s, user_input, image_data, input_type, has_image, g) ==
    IF input_type = D_text_only
    THEN VisionAgent_process(s, user_input, image_data, g.vision)
    ELSE IF input_type = D_vision_primary
    THEN VisionAgent_process(s, user_input, image_data, g.vision)
    ELSE IF input_type = D_vision_with_text
    THEN With(VisionAgent_process(s, user_input, image_data, g.vision), LAMBDA v :
         With(S_BasedOn \o v.ret \o S_AdditionalQuestion \o Str(user_input),
              LAMBDA enhanced_query :
         With(TextAgent_process(v.s, enhanced_query, NoImage, g.text), LAMBDA t :
         With(combine_responses(v.ret, t.ret, user_input, g.synthesis), LAMBDA c :
             [ret |-> c.ret, s |-> t.s, trace |-> v.trace \o t.trace \o c.trace]))))
    ELSE [ret |-> S_Unable, s |-> s, trace |-> << >>]

\* _route_request passing the bare question to the Text role in a vision_with_text turn
route_request_PlainQuery(s, user_input, image_data, input_type, has_image, g) ==
    IF input_type = D_text_only
    THEN TextAgent_process(s, user_input, image_data, g.text)
    ELSE IF input_type = D_vision_primary
    THEN VisionAgent_process(s, user_input, image_data, g.vision)
    ELSE IF input_type = D_vision_with_text
    THEN With(VisionAgent_process(s, user_input, image_data, g.vision), LAMBDA v :
         With(TextAgent_process(v.s, user_input, NoImage, g.text), LAMBDA t :
         With(combine_responses(v.ret, t.ret, user_input, g.synthesis), LAMBDA c :
             [ret |-> c.ret, s |-> t.s, trace |-> v.trace \o t.trace \o c.trace])))
    ELSE [ret |-> S_Unable, s |-> s, trace |-> << >>]

route_request(s, user_input, image_data, input_type, has_image, g) ==
    IF input_type = D_text_only
    THEN TextAgent_process(s, user_input, image_data, g.text)
    ELSE IF input_type = D_vision_primary
    THEN VisionAgent_process(s, user_input, image_data, g.vision)
    ELSE IF input_type = D_vision_with_text
    THEN With(VisionAgent_process(s, user_input, image_data, g.vision), LAMBDA v :
         With(S_BasedOn \o v.ret \o S_AdditionalQuestion \o Str(user_input),
              LAMBDA enhanced_query :
         With(TextAgent_process(v.s, enhanced_query, NoImage, g.text), LAMBDA t :
         With(combine_responses(v.ret, t.ret, user_input, g.synthesis), LAMBDA c :
             [ret |-> c.ret, s |-> t.s, trace |-> v.trace \o t.trace \o c.trace]))))
    ELSE [ret |-> S_Unable, s |-> s, trace |-> << >>]

get_agents_used(input_type) ==
    IF input_type = D_text_only THEN << NAME_Text >>
    ELSE IF input_type = D_vision_primary THEN << NAME_Vision >>
    ELSE IF input_type = D_vision_with_text THEN << NAME_Vision, NAME_Text >>
    ELSE << >>

get_routing_info(input_type, has_image) ==
    [ input_type      |-> input_type,
      has_image       |-> has_image,
      agents_used     |-> get_agents_used(input_type),
      processing_mode |-> input_type ]

\* CoordinatorAgent.process without its try/except
Coordinator_process_NoCatch(s, user_input, image_data, g) ==
    LET has_image  == image_data # NoImage
        input_type == determine_input_type(user_input, has_image)
    IN  IF input_type.exc
        THEN [ exc      |-> TRUE,
               ret      |-> None,
               s        |-> s,
               decision |-> None,
               trace    |-> << >> ]
        ELSE With(route_request(s, user_input, image_data, input_type.ret, has_image, g),
                  LAMBDA r :
                 [ exc      |-> FALSE,
                   ret      |-> r.ret,
                   s        |-> update_state(r.s, NAME_Coordinator,
                                    [ last_decision |-> input_type.ret,
                                      active        |-> TRUE,
                                      last_routing  |->
                                          get_routing_info(input_type.ret, has_image) ]),
                   decision |-> input_type.ret,
                   trace    |-> r.trace ])

\* CoordinatorAgent.process: exc tells whether the call raised to its caller,
\* decision is the input_type it computed (None when it computed none)
Coordinator_process(s, user_input, image_data, g) ==
    LET has_image  == image_data # NoImage
        input_type == determine_input_type(user_input, has_image)
    IN  IF input_type.exc
        THEN [ exc      |-> FALSE,
               ret      |-> S_CoordinatorError \o input_type.ret,
               s        |-> update_state(s, NAME_Coordinator,
                                [last_decision |-> D_error, active |-> FALSE]),
               decision |-> None,
               trace    |-> << >> ]
        ELSE With(route_request(s, user_input, image_data, input_type.ret, has_image, g),
                  LAMBDA r :
                 [ exc      |-> FALSE,
                   ret      |-> r.ret,
                   s        |-> update_state(r.s, NAME_Coordinator,
                                    [ last_decision |-> input_type.ret,
                                      active        |-> TRUE,
                                      last_routing  |->
                                          get_routing_info(input_type.ret, has_image) ]),
                   decision |-> input_type.ret,
                   trace    |-> r.trace ])

Coordinator_get_status(s) ==
    IF DictGet(get_state(s, NAME_Coordinator), "active", FALSE)
    THEN S_CoordStatusActive
    ELSE S_CoordStatusInactive

get_system_status(s) ==
    [ coordinator   |-> Coordinator_get_status(s),
      text_agent    |-> TextAgent_get_status(s),
      vision_agent  |-> VisionAgent_get_status(s),
      total_agents  |-> 3,
      active_agents |->
          (IF Contains(Coordinator_get_status(s), S_Active) THEN 1 ELSE 0)
        + (IF Contains(TextAgent_get_status(s), S_Active) THEN 1 ELSE 0)
        + (IF Contains(VisionAgent_get_status(s), S_Active) THEN 1 ELSE 0) ]

-----------------------------------------------------------------------------
(* What the models answer in one turn.  A turn asks the vision model at most *)
(* once and the text model at most twice (the Text role, then the synthesis);*)
(* which calls it makes does not depend on the answers, so the answers are   *)
(* enumerated for the calls made and are Silent for the others.              *)

Silent ==
    [ok |-> TRUE, text |-> << >>]

\* no model is asked
NoAnswers ==
    [vision |-> Silent, text |-> Silent, synthesis |-> Silent]

CountCalls(tr, name) ==
    Cardinality({i \in 1..Len(tr) : tr[i].call = name})

Answers(s, user_input, image_data) ==
    With(Coordinator_process(s, user_input, image_data, NoAnswers).trace, LAMBDA tr :
    With(CountCalls(tr, "vision_model.generate_content"), LAMBDA nv :
    With(CountCalls(tr, "text_model.generate_content"), LAMBDA nt :
        { [vision |-> v, text |-> t, synthesis |-> y] :
            v \in (IF nv > 0 THEN VisionModelOutcomes ELSE {Silent}),
            t \in (IF nt > 0 THEN TextModelOutcomes ELSE {Silent}),
            y \in (IF nt > 1 THEN TextModelOutcomes ELSE {Silent}) })))

-----------------------------------------------------------------------------
(* The session as the model's state *)

Session ==
    [ conversation_history |-> conversation_history,
      current_context      |-> current_context,
      uploaded_images      |-> uploaded_images,
      agent_states         |-> agent_states,
      clock                |-> clock ]

SetSession(s) ==
    /\ conversation_history' = s.conversation_history
    /\ current_context' = s.current_context
    /\ uploaded_images' = s.uploaded_images
    /\ agent_states' = s.agent_states
    /\ clock' = s.clock

\* bookkeeping of one operation
Record(name, text, image, limit, g, dec, tr, res, exc) ==
    /\ turns' = turns + 1
    /\ prev' = Session
    /\ op' = name
    /\ arg_text' = text
    /\ arg_image' = image
    /\ arg_limit' = limit
    /\ answers' = g
    /\ decision' = dec
    /\ trace' = tr
    /\ result' = res
    /\ raised' = exc

-----------------------------------------------------------------------------
(* Inputs *)

T_Empty ==
    << >>

T_Blank ==
    <<" ", " ">>

T_Why ==
    <<"W", "h", "y", "?">>

T_LOOK ==
    <<"L", "O", "O", "K">>

T_Sees ==
    <<"i", "t", " ", "s", "e", "e", "s">>

T_WhatIs ==
    <<"s", "o", " ", "W", "h", "a", "t", " ", "i", "s">>

T_Whatis ==
    <<"W", "h", "a", "t", "i", "s">>

\* texts a caller of Coordinator.process passes
CallTexts ==
    {None, T_Empty, T_Blank, T_Why, T_Sees, T_WhatIs, T_Whatis}

\* images a caller of Coordinator.process passes
CallImages ==
    {NoImage, "img1", "badfile"}

\* texts typed into the page
PageTexts ==
    {T_Empty, T_Why, T_LOOK}

\* files uploaded on the page
PageFiles ==
    {NoImage, "file1", "badfile"}

\* texts a caller of TextAgent.process or VisionAgent.process passes
RoleTexts ==
    {None, T_Empty, T_Why}

\* images a caller of VisionAgent.process passes
RoleImages ==
    {NoImage, "img1", "badfile"}

\* images a caller of add_uploaded_image passes
StoredImages ==
    {"img1", "img2"}

\* a string of n letters starting at the letter numbered from
Fill(n, from) ==
    [i \in 1..n |-> LowerLetters[((i + from) % 26) + 1]]

\* contexts a caller of update_context passes
ContextInputs ==
    { << >>, <<"x">>, Fill(ContextCap \div 2 - 100, 0), Fill(ContextCap - 1, 3),
      Fill(ContextCap, 7), Fill(ContextCap + 1, 11) }

-----------------------------------------------------------------------------
(* Operations *)

Init ==
    /\ conversation_history = initialize_session_state.conversation_history
    /\ current_context = initialize_session_state.current_context
    /\ uploaded_images = initialize_session_state.uploaded_images
    /\ agent_states = initialize_session_state.agent_states
    /\ clock = initialize_session_state.clock
    /\ turns = 0
    /\ prev = initialize_session_state
    /\ op = "init"
    /\ arg_text = None
    /\ arg_image = NoImage
    /\ arg_limit = 0
    /\ answers = NoAnswers
    /\ decision = None
    /\ trace = << >>
    /\ result = None
    /\ raised = FALSE

\* a direct call of CoordinatorAgent.process
CoordinatorProcess(user_input, image_data) ==
    /\ turns < MaxTurns
    /\ \E g \in Answers(Session, user_input, image_data) :
       \E r \in {Coordinator_process(Session, user_input, image_data, g)} :
           /\ SetSession(r.s)
           /\ Record("process", user_input, image_data, 0, g, r.decision, r.trace, r.ret, r.exc)

\* app.py handle_user_input with the Process button pressed
HandleUserInput(user_input, uploaded_file) ==
    /\ turns < MaxTurns
    /\ IF strip(user_input) = << >> /\ uploaded_file = NoImage
       THEN /\ SetSession(Session)
            /\ Record("handle_user_input:warning", user_input, NoImage, 0,
                      NoAnswers, None, << >>, None, FALSE)
       ELSE LET opened == IF uploaded_file = NoImage
                          THEN [exc |-> FALSE, ret |-> NoImage]
                          ELSE Image_open(uploaded_file)
                image_data == opened.ret
                s1 == IF uploaded_file # NoImage
                      THEN add_uploaded_image(Session, image_data)
                      ELSE Session
            IN  IF opened.exc
                THEN /\ SetSession(Session)
                     /\ Record("handle_user_input:error", user_input, NoImage, 0,
                               NoAnswers, None, << >>, None, FALSE)
                ELSE \E g \in Answers(s1, user_input, image_data) :
                     \E r \in {Coordinator_process(s1, user_input, image_data, g)} :
                       LET last_decision ==
                               DictGet(get_state(r.s, NAME_Coordinator),
                                       "last_decision", << >>)
                           agent_type ==
                               IF Contains(last_decision, S_text) THEN NAME_Text
                               ELSE IF Contains(last_decision, S_vision) THEN NAME_Vision
                               ELSE T_Coordinator
                       IN  IF r.exc
                           THEN /\ SetSession(r.s)
                                /\ Record("handle_user_input:error", user_input, image_data,
                                          0, g, r.decision, r.trace, None, FALSE)
                           ELSE /\ SetSession(add_to_history(r.s, user_input, r.ret,
                                                             agent_type, image_data))
                                /\ Record("handle_user_input", user_input, image_data, 0,
                                          g, r.decision, r.trace, r.ret, FALSE)

\* the Clear History button: StateManager.clear_history
ClearHistory ==
    /\ turns < MaxTurns
    /\ SetSession(clear_history(Session))
    /\ Record("clear_history", None, NoImage, 0, NoAnswers, None, << >>, None, FALSE)

\* a call of StateManager.get_recent_history
GetRecentHistory(limit) ==
    /\ turns < MaxTurns
    /\ SetSession(Session)
    /\ Record("get_recent_history", None, NoImage, limit, NoAnswers, None, << >>,
              get_recent_history(Session, limit), FALSE)

\* the sidebar of the page: CoordinatorAgent.get_system_status
GetSystemStatus ==
    /\ turns < MaxTurns
    /\ SetSession(Session)
    /\ Record("get_system_status", None, NoImage, 0, NoAnswers, None, << >>,
              get_system_status(Session), FALSE)

\* a direct call of TextAgent.process
TextProcess(user_input) ==
    /\ turns < MaxAttempts
    /\ \E g \in TextModelOutcomes :
       \E r \in {TextAgent_process(Session, user_input, NoImage, g)} :
           /\ SetSession(r.s)
           /\ Record("text_agent.process", user_input, NoImage, 0,
                     [NoAnswers EXCEPT !.text = g], None, r.trace, r.ret, FALSE)

\* a direct call of VisionAgent.process; the model answers when it is asked
VisionProcess(user_input, image_arg) ==
    /\ turns < MaxAttempts
    /\ \E asked \in {CountCalls(VisionAgent_process(Session, user_input, image_arg,
                                                    Silent).trace,
                                "vision_model.generate_content") > 0} :
       \E g \in (IF asked THEN VisionModelOutcomes ELSE {Silent}) :
       \E r \in {VisionAgent_process(Session, user_input, image_arg, g)} :
           /\ SetSession(r.s)
           /\ Record("vision_agent.process", user_input, image_arg, 0,
                     [NoAnswers EXCEPT !.vision = g], None, r.trace, r.ret, FALSE)

\* a call of StateManager.add_uploaded_image
AddUploadedImage(image_data) ==
    /\ turns < MaxAttempts
    /\ SetSession(add_uploaded_image(Session, image_data))
    /\ Record("add_uploaded_image", None, image_data, 0, NoAnswers, None, << >>, None, FALSE)

\* a call of StateManager.update_context
UpdateContext(new_context) ==
    /\ turns < MaxAppends
    /\ SetSession(update_context(Session, new_context))
    /\ Record("update_context", new_context, NoImage, 0, NoAnswers, None, << >>, None, FALSE)

Next ==
    \/ \E user_input \in CallTexts, image_data \in CallImages :
            CoordinatorProcess(user_input, image_data)
    \/ \E user_input \in PageTexts, uploaded_file \in PageFiles :
            HandleUserInput(user_input, uploaded_file)
    \/ ClearHistory
    \/ \E limit \in 0..MaxLimit : GetRecentHistory(limit)
    \/ GetSystemStatus

Spec ==
    Init /\ [][Next]_vars

\* the context store alone, driven by update_context and clear_history
NextContext ==
    \/ \E new_context \in ContextInputs : UpdateContext(new_context)
    \/ ClearHistory

SpecContext ==
    Init /\ [][NextContext]_vars

\* the two roles called directly, over a store that receives and drops images
NextRoles ==
    \/ \E user_input \in RoleTexts : TextProcess(user_input)
    \/ \E user_input \in RoleTexts, image_arg \in RoleImages :
            VisionProcess(user_input, image_arg)
    \/ \E image_data \in StoredImages : AddUploadedImage(image_data)
    \/ ClearHistory

SpecRoles ==
    Init /\ [][NextRoles]_vars

-----------------------------------------------------------------------------
(* Vocabulary of the properties *)

\* the last operation ran CoordinatorAgent.process to its end
ProcessCalled ==
    op \in {"process", "handle_user_input"}

\* what the Text role and the Vision role returned last
TextAnswer ==
    agent_states[KEY_text_agent].last_response

VisionAnswer ==
    agent_states[KEY_vision_agent].last_response

\* the text is empty or whitespace, or holds a keyword in any letter case
BlankOrKeyword(text) ==
    /\ text # None
    /\ \/ strip(text) = << >>
       \/ \E k \in 1..Len(image_keywords) : Contains(lower(text), image_keywords[k])

\* every model call the last operation made failed
AllAskedFailed ==
    /\ CountCalls(trace, "vision_model.generate_content") > 0 => ~answers.vision.ok
    /\ CountCalls(trace, "text_model.generate_content") > 0 => ~answers.text.ok
    /\ CountCalls(trace, "text_model.generate_content") > 1 => ~answers.synthesis.ok

-----------------------------------------------------------------------------
(* Properties *)

\* C1: a Coordinator.process call without an image is classified text_only, invokes
\* the Text role exactly once with the original text, does not invoke the Vision
\* role, and returns exactly what the Text role returned.
C1_TextOnly ==
    (ProcessCalled /\ arg_image = NoImage) =>
        /\ decision = D_text_only
        /\ CountCalls(trace, "text_agent.process") = 1
        /\ trace[1] = Call("text_agent.process", arg_text, NoImage)
        /\ CountCalls(trace, "vision_agent.process") = 0
        /\ CountCalls(trace, "vision_model.generate_content") = 0
        /\ result = TextAnswer

\* C1 witness: a text-only call made while an uploaded image is in the store
C1_Witness ==
    /\ op = "process"
    /\ arg_image = NoImage
    /\ prev.uploaded_images # << >>
    /\ decision = D_text_only
    /\ result = R_Short

\* C2: with an image, a call is classified vision_primary exactly when the raw text is
\* blank or holds a keyword (any case, any position); then only the Vision role is
\* invoked, with the original text and image.
C2_VisionPrimary ==
    (ProcessCalled /\ arg_image # NoImage) =>
        /\ (decision = D_vision_primary) <=> BlankOrKeyword(arg_text)
        /\ (decision = D_vision_primary) =>
              /\ CountCalls(trace, "vision_agent.process") = 1
              /\ trace[1] = Call("vision_agent.process", arg_text, arg_image)
              /\ CountCalls(trace, "text_agent.process") = 0

\* C2 witness: a capitalised keyword phrase at the end of the text, with an image
C2_Witness ==
    /\ op = "process"
    /\ arg_image = "img1"
    /\ arg_text = T_WhatIs
    /\ decision = D_vision_primary
    /\ VisionAnswer = LongReply

\* C3: with an image and a non-blank text without keywords, the call is classified
\* vision_with_text; the Vision role is invoked once, first, then the Text role once,
\* without the image, on a prompt holding the vision answer and the question, and
\* the synthesis call is the last call of the turn.
C3_VisionWithText ==
    (ProcessCalled /\ arg_image # NoImage /\ arg_text # None /\ ~BlankOrKeyword(arg_text)) =>
        /\ decision = D_vision_with_text
        /\ CountCalls(trace, "vision_agent.process") = 1
        /\ CountCalls(trace, "text_agent.process") = 1
        /\ CountCalls(trace, "text_model.generate_content") = 2
        /\ trace[1] = Call("vision_agent.process", arg_text, arg_image)
        /\ \E i \in 2..(Len(trace) - 2) :
              /\ trace[i].call = "text_agent.process"
              /\ trace[i].image = NoImage
              /\ Contains(trace[i].text, VisionAnswer)
              /\ Contains(trace[i].text, arg_text)
              /\ trace[i + 1].call = "text_model.generate_content"
              /\ i + 2 = Len(trace)
              /\ trace[i + 2].call = "text_model.generate_content"
              /\ Contains(trace[i + 2].text, VisionAnswer)
              /\ Contains(trace[i + 2].text, TextAnswer)

\* C3 witness: a plain question about a readable image, every model answering
C3_Witness ==
    /\ op = "process"
    /\ arg_text = T_Why
    /\ arg_image = "img1"
    /\ decision = D_vision_with_text
    /\ Len(trace) = 5
    /\ answers.vision.ok /\ answers.text.ok /\ answers.synthesis.ok

\* C4: Coordinator.process never raises: it returns a string, and the string of a
\* failure caught at its top level starts with "Coordinator error: ".
C4_NeverRaises ==
    op = "process" =>
        /\ raised = FALSE
        /\ result # None
        /\ decision = None =>
              SliceTo(result, Len(S_CoordinatorError)) = S_CoordinatorError

\* C4 witness: the classification failed and the call returned the error string
C4_Witness ==
    /\ op = "process"
    /\ decision = None
    /\ raised = FALSE
    /\ result = S_CoordinatorError \o E_NoLower

\* C5: after a Coordinator.process call the 'coordinator' record holds the outcome:
\* the classification and active = TRUE, or "error" and active = FALSE.
C5_CoordinatorStateRecorded ==
    op = "process" =>
        IF decision = None
        THEN /\ agent_states[KEY_coordinator].last_decision = D_error
             /\ agent_states[KEY_coordinator].active = FALSE
        ELSE /\ agent_states[KEY_coordinator].last_decision = decision
             /\ agent_states[KEY_coordinator].active = TRUE

\* C6: when every model call of a turn fails, the call returns a non-empty string
\* without raising and every role invoked in the turn ends with active = FALSE.
C6_AllGenerationFails ==
    (op = "process" /\ AllAskedFailed) =>
        /\ raised = FALSE
        /\ result # None
        /\ result # << >>
        /\ CountCalls(trace, "text_agent.process") > 0 =>
              agent_states[KEY_text_agent].active = FALSE
        /\ CountCalls(trace, "vision_agent.process") > 0 =>
              agent_states[KEY_vision_agent].active = FALSE

\* C7: in a vision_with_text turn the response is the banner followed by the
\* synthesized text when the synthesis call succeeds, and the two labelled sections
\* holding the vision answer and the text answer when it fails.
C7_SynthesisFallback ==
    (op = "process" /\ decision = D_vision_with_text) =>
        IF answers.synthesis.ok
        THEN result = S_Comprehensive \o answers.synthesis.text
        ELSE result = S_VisualAnalysis \o VisionAnswer \o S_AdditionalAnalysis \o TextAnswer

\* C8: the context never exceeds 1000 characters, and after update_context(new) it is
\* the trailing min(1000, len) characters of old + newline + new, or of new when old
\* was empty.
C8_ContextBounded ==
    /\ Len(current_context) <= ContextCap
    /\ op = "update_context" =>
          LET joined == IF prev.current_context = << >>
                        THEN arg_text
                        ELSE prev.current_context \o <<NL>> \o arg_text
              kept   == Min(ContextCap, Len(joined))
          IN  /\ Len(current_context) = kept
              /\ \A i \in 1..kept :
                    current_context[i] = joined[Len(joined) - kept + i]

\* C8 witness: an append to a non-empty context that overflows the cap
C8_Witness ==
    /\ op = "update_context"
    /\ prev.current_context # << >>
    /\ Len(prev.current_context) + 1 + Len(arg_text) > ContextCap
    /\ Len(arg_text) < ContextCap
    /\ Len(current_context) = ContextCap

\* C9: get_recent_history(n) returns at most n records, they are the last records of
\* the log in insertion order, and a non-empty result ends with the newest record.
C9_RecentHistory ==
    op = "get_recent_history" =>
        /\ Len(result) <= arg_limit
        /\ result = SubSeq(conversation_history,
                           Len(conversation_history) - Len(result) + 1,
                           Len(conversation_history))
        /\ result # << >> =>
              result[Len(result)] = conversation_history[Len(conversation_history)]

\* C10: right after clear_history the log, the context and the image list are empty,
\* so get_latest_image gives no image and get_recent_history gives nothing.
C10_ClearAll ==
    op = "clear_history" =>
        /\ conversation_history = << >>
        /\ current_context = << >>
        /\ uploaded_images = << >>
        /\ get_latest_image(Session) = NoImage
        /\ \A limit \in 0..MaxLimit : get_recent_history(Session, limit) = << >>

\* C10 witness: clear_history after a turn that filled the log, the context and the
\* image list
C10_Witness ==
    /\ op = "clear_history"
    /\ prev.conversation_history # << >>
    /\ prev.current_context # << >>
    /\ prev.uploaded_images # << >>
    /\ uploaded_images = << >>

\* the number of roles whose stored record has active = TRUE
StoredActive ==
    Cardinality({k \in DOMAIN agent_states : agent_states[k].active})

\* C11: in every state get_system_status reports each of the three roles as Active
\* exactly when the stored record of the role has active = TRUE, and active_agents
\* is the number of stored records with active = TRUE.
C11_SystemStatus ==
    /\ Contains(get_system_status(Session).coordinator, S_Active)
          <=> agent_states[KEY_coordinator].active
    /\ Contains(get_system_status(Session).text_agent, S_Active)
          <=> agent_states[KEY_text_agent].active
    /\ Contains(get_system_status(Session).vision_agent, S_Active)
          <=> agent_states[KEY_vision_agent].active
    /\ get_system_status(Session).active_agents = StoredActive

\* the Vision role had an image to work on in the last operation
VisionHadImage ==
    arg_image # NoImage \/ prev.uploaded_images # << >>

\* C12: after a direct attempt of a role its record reflects that attempt: when the
\* model answered, active = TRUE and last_response = the answer = the value returned;
\* when the attempt failed (the model call failed, or the role failed before it),
\* active = FALSE and last_response = the value returned; the role never raises.
C12_RoleStateReflectsAttempt ==
    /\ op = "text_agent.process" =>
          /\ raised = FALSE
          /\ result = TextAnswer
          /\ IF answers.text.ok
             THEN /\ agent_states[KEY_text_agent].active
                  /\ result = answers.text.text
             ELSE ~agent_states[KEY_text_agent].active
    /\ (op = "vision_agent.process" /\ VisionHadImage) =>
          /\ raised = FALSE
          /\ result = VisionAnswer
          /\ IF CountCalls(trace, "vision_model.generate_content") = 1 /\ answers.vision.ok
             THEN /\ agent_states[KEY_vision_agent].active
                  /\ result = answers.vision.text
             ELSE ~agent_states[KEY_vision_agent].active

\* C13: the Vision role called without an image works on the newest stored image
\* when the image list is not empty; when it is empty it returns the fixed
\* "no image" message, asks no model, and leaves the role records and the context
\* as they were.
C13_VisionWithoutImage ==
    (op = "vision_agent.process" /\ arg_image = NoImage) =>
        IF prev.uploaded_images # << >>
        THEN /\ result # S_NoImage
             /\ arg_text # None =>
                   CountCalls(trace, "vision_model.generate_content") = 1
             /\ \A i \in 1..Len(trace) :
                   trace[i].call = "vision_model.generate_content" =>
                       trace[i].image =
                           prev.uploaded_images[Len(prev.uploaded_images)].image
        ELSE /\ result = S_NoImage
             /\ CountCalls(trace, "vision_model.generate_content") = 0
             /\ agent_states = prev.agent_states
             /\ current_context = prev.current_context

\* C13 witness: two different images stored, the call worked on the second
C13_Witness ==
    /\ op = "vision_agent.process"
    /\ arg_image = NoImage
    /\ Len(prev.uploaded_images) = 2
    /\ prev.uploaded_images[1].image # prev.uploaded_images[2].image
    /\ Len(trace) = 2
    /\ trace[2].image = prev.uploaded_images[2].image
    /\ result = LongReply

\* C13 witness: no image stored after a clear_history, the call changed nothing
C13_WitnessEmpty ==
    /\ op = "vision_agent.process"
    /\ arg_image = NoImage
    /\ prev.uploaded_images = << >>
    /\ prev.current_context # << >>
    /\ result = S_NoImage

\* C14: the log only grows at its tail: a completed page request adds exactly one
\* record after the records already stored, holding the text, the response and
\* has_image = TRUE exactly when an image was passed; every other operation except
\* clear_history leaves the log as it was.
C14_HistoryAppendOnly ==
    /\ op = "handle_user_input" =>
          /\ Len(conversation_history) = Len(prev.conversation_history) + 1
          /\ SubSeq(conversation_history, 1, Len(prev.conversation_history))
                = prev.conversation_history
          /\ conversation_history[Len(conversation_history)].user_input = arg_text
          /\ conversation_history[Len(conversation_history)].agent_response = result
          /\ conversation_history[Len(conversation_history)].has_image
                <=> (arg_image # NoImage)
    /\ op \notin {"handle_user_input", "clear_history"} =>
          conversation_history = prev.conversation_history

\* C14 witness: a request with an image appended after a request without one
C14_Witness ==
    /\ op = "handle_user_input"
    /\ arg_image # NoImage
    /\ Len(conversation_history) = 2
    /\ ~conversation_history[1].has_image
    /\ conversation_history[2].has_image
    /\ conversation_history[1].user_input # conversation_history[2].user_input

\* C14 witness: Coordinator.process and its roles ran over a non-empty log
C14_WitnessProcess ==
    /\ op = "process"
    /\ decision = D_vision_with_text
    /\ Len(conversation_history) = 1
    /\ conversation_history = prev.conversation_history

\* C15: a role attempt whose model call fails leaves the context as it was before
\* the attempt, and a role attempt whose model call succeeds appends one summary.
C15_FailedAttemptKeepsContext ==
    /\ op = "text_agent.process" =>
          IF answers.text.ok
          THEN current_context # prev.current_context
          ELSE current_context = prev.current_context
    /\ (op = "vision_agent.process" /\ VisionHadImage /\ arg_text # None
          /\ arg_image # "badfile") =>
          IF answers.vision.ok
          THEN current_context # prev.current_context
          ELSE current_context = prev.current_context

=============================================================================
